---- MODULE Spec2Model ----
(***************************************************************************)
(* Model of evercamPlay/src/main/jni/android-launch.c: the JNI bridge      *)
(* between the managed VideoActivity and the native GstLaunchRemote        *)
(* pipeline.  One command thread (the managed main thread) runs the native *)
(* methods statement by statement; pipeline worker threads run the six     *)
(* callbacks and read the pipeline's window handle.                        *)
(***************************************************************************)
EXTENDS Integers, Sequences, FiniteSets, TLC

\* ------------------------------------------------------------------ bounds
\* Number of AndroidLaunch allocations (calls of nativeInit) explored.
MaxInst == 2
\* Saturation point of the per-instance destroy / DeleteGlobalRef counters.
CountCap == 2

\* --------------------------------------------------------------- constants
NULL == 0
NullStr == "<null>"

Threads == {1, 2}            \* pipeline worker threads T1, T2
Surfaces == {1, 2}           \* managed Surface objects S1, S2; ANativeWindow of S is S
Instances == 1 .. MaxInst    \* addresses g_slice_new0 hands out, in order
Uris == {"a", "b"}           \* values of the jstring arguments
Usernames == {"u"}            \* one value each: the three setters share DUP_STRING,
Passwords == {"p"}            \* whose replacing of a different value the URIs exercise
Timeouts == {5}
ErrorArgs == {<<"connection refused", 7>>}   \* (message, code) of set_error
MessageArgs == {<<"m1">>}
IntPairArgs == {<<1, 2>>}                 \* (position, duration) / (width, height)

\* The strings of the GstLaunchRemote that DUP_STRING fills.
StringFields == {"uri", "username", "password"}

Kinds == {"set_message", "set_error", "set_current_position",
          "media_size_changed", "notify_about_video_loaded", "initialized"}

IdNames == {"app_data_field_id", "set_message_method_id",
            "set_current_position_method_id",
            "on_gstreamer_initialized_method_id",
            "on_media_size_changed_method_id", "on_video_loaded_method_id",
            "on_error_method_id"}

\* The managed classes nativeClassInit is run against: one that has every
\* member, and for each member one that lacks exactly that member.
Klasses == {IdNames} \cup {IdNames \ {n} : n \in IdNames}

VARIABLES
  loaded,          \* JNI_OnLoad: "none", "ok" (key created, natives registered), "failed"
  ids,             \* the static jfieldID / jmethodID: TRUE when non-null
  class_init_ret,  \* what nativeClassInit returned: "none", "true", "false"
  slot,            \* thiz.native_app_data: an instance address or NULL
  heap,            \* the AndroidLaunch structs
  launch,          \* the GstLaunchRemote of each AndroidLaunch
  gref,            \* the global reference NewGlobalRef made for each instance
  win_refs,        \* per ANativeWindow: references acquired and not released
  cmd,             \* the command thread: running native method and position
  wk,              \* the worker threads: running callback and position
  tls,             \* pthread_getspecific (current_jni_env) of each worker
  rendered,        \* the window the pipeline last rendered to
  n_destroy,       \* per instance: calls of gst_launch_remote_free
  n_delref,        \* per instance: calls of DeleteGlobalRef on its reference
  win_held,        \* per instance: window references it acquired and has not released
  n_str,           \* per instance and string field: g_strdup copies not yet g_free'd
  n_attach,        \* per worker: successful calls of AttachCurrentThread
  n_detach,        \* per worker: runs of detach_current_thread
  fault            \* "none", or the fault that ended the process

vars == <<loaded, ids, class_init_ret, slot, heap, launch, gref, win_refs,
          cmd, wk, tls, rendered, n_destroy, n_delref, win_held, n_str,
          n_attach, n_detach, fault>>

staticVars == <<loaded, ids, class_init_ret>>
objVars == <<slot, heap, launch, gref, win_refs, n_destroy, n_delref, win_held, n_str>>
wkVars == <<wk, tls, rendered, n_attach, n_detach>>

\* ----------------------------------------------------------------- helpers
Env(t) == t      \* the JNIEnv AttachCurrentThread gives thread t

Bump(c) == IF c < CountCap THEN c + 1 ELSE c

ZeroInstance == [st |-> "unalloc", app |-> NULL, native_window |-> NULL]

ZeroLaunch == [st |-> "none", window_handle |-> NULL, uri |-> NullStr,
               username |-> NullStr, password |-> NullStr, tcp_timeout |-> 0]

IdleCmd(last, trace) ==
  [op |-> "idle", idx |-> 0, app |-> NULL, surface |-> NULL,
   new_native_window |-> NULL, last |-> last, trace |-> trace]

IdleWk == [pc |-> "idle", kind |-> "none", inst |-> NULL, env |-> NULL,
           jmessage |-> FALSE, arg |-> <<>>, exc |-> FALSE, calls |-> <<>>]

\* GET_CUSTOM_DATA (env, thiz, app_data_field_id)
GET_CUSTOM_DATA == slot

\* The next address g_slice_new0 returns.
FreshInstance == 1 + Cardinality({i \in Instances : heap[i].st # "unalloc"})

\* The managed side uses the bridge only after the library loaded and
\* nativeClassInit returned true, and a faulted process runs nothing.
BridgeUsable == loaded = "ok" /\ class_init_ret = "true" /\ fault = "none"

CmdReady == BridgeUsable /\ cmd.op = "idle"

\* ------------------------------------------------------------------- Init
Init ==
  /\ loaded = "none"
  /\ ids = [n \in IdNames |-> FALSE]
  /\ class_init_ret = "none"
  /\ slot = NULL
  /\ heap = [i \in Instances |-> ZeroInstance]
  /\ launch = [i \in Instances |-> ZeroLaunch]
  /\ gref = [i \in Instances |-> "none"]
  /\ win_refs = [w \in Surfaces |-> 0]
  /\ cmd = IdleCmd("none", <<>>)
  /\ wk = [t \in Threads |-> IdleWk]
  /\ tls = [t \in Threads |-> NULL]
  /\ rendered = NULL
  /\ n_destroy = [i \in Instances |-> 0]
  /\ n_delref = [i \in Instances |-> 0]
  /\ win_held = [i \in Instances |-> 0]
  /\ n_str = [i \in Instances |-> [f \in StringFields |-> 0]]
  /\ n_attach = [t \in Threads |-> 0]
  /\ n_detach = [t \in Threads |-> 0]
  /\ fault = "none"

\* ---------------------------------------------------------- registration
\* JNI_OnLoad: GetEnv may fail (return 0); otherwise the natives are
\* registered and the thread-specific key is created.
JNI_OnLoad ==
  /\ loaded = "none"
  /\ fault = "none"
  /\ \E getenv_ok \in BOOLEAN : loaded' = IF getenv_ok THEN "ok" ELSE "failed"
  /\ UNCHANGED <<ids, class_init_ret, objVars, cmd, wkVars, fault>>

\* The test of android_launch_class_init on the identifiers it resolved.
ClassInitComplete(resolved) ==
  ~ ( ~resolved["app_data_field_id"] \/ ~resolved["set_message_method_id"]
      \/ ~resolved["on_gstreamer_initialized_method_id"]
      \/ ~resolved["on_media_size_changed_method_id"]
      \/ ~resolved["set_current_position_method_id"] )

\* android_launch_class_init: GetFieldID / GetMethodID give NULL for a
\* member klass does not have.
android_launch_class_init ==
  /\ loaded = "ok"
  /\ fault = "none"
  /\ class_init_ret = "none"
  /\ \E klass \in Klasses :
       LET resolved == [n \in IdNames |-> n \in klass] IN
         /\ ids' = resolved
         /\ class_init_ret' = IF ClassInitComplete(resolved) THEN "true" ELSE "false"
  /\ UNCHANGED <<loaded, objVars, cmd, wkVars, fault>>

\* ------------------------------------------------- command thread: steps
\* The statements of each multi-statement native method, in source order.
InitOrder ==
  <<"g_slice_new0", "gst_launch_remote_new", "SET_CUSTOM_DATA", "NewGlobalRef">>

\* android_launch_finalize deleting the global reference before it destroys
\* the pipeline.
FinalizeOrder_RefFirst ==
  <<"free_username", "free_password", "DeleteGlobalRef",
    "gst_launch_remote_free", "g_slice_free", "SET_CUSTOM_DATA_NULL">>

\* android_launch_finalize leaving the owner's field set.
FinalizeOrder_SlotKept ==
  <<"free_username", "free_password", "gst_launch_remote_free",
    "DeleteGlobalRef", "g_slice_free">>

FinalizeOrder ==
  <<"free_username", "free_password", "gst_launch_remote_free",
    "DeleteGlobalRef", "g_slice_free", "SET_CUSTOM_DATA_NULL">>

\* android_launch_surface_init without the release of the window it replaces.
SurfaceInitOrder_NoRelease ==
  <<"ANativeWindow_fromSurface", "store_native_window", "set_window_handle">>

SurfaceInitOrder ==
  <<"ANativeWindow_fromSurface", "release_old_window", "store_native_window",
    "set_window_handle">>

\* android_launch_surface_finalize releasing the window before it clears the
\* pipeline's handle.
SurfaceFinalizeOrder_ReleaseFirst ==
  <<"ANativeWindow_release", "set_window_handle_null", "store_null">>

SurfaceFinalizeOrder ==
  <<"set_window_handle_null", "ANativeWindow_release", "store_null">>

OrderOf(op) ==
  CASE op = "init" -> InitOrder
    [] op = "finalize" -> FinalizeOrder
    [] op = "surface_init" -> SurfaceInitOrder
    [] op = "surface_finalize" -> SurfaceFinalizeOrder
    [] OTHER -> <<>>

\* The command thread is about to run statement `label` of method `op`.
At(op, label) ==
  /\ fault = "none"
  /\ cmd.op = op
  /\ cmd.idx <= Len(OrderOf(op))
  /\ OrderOf(op)[cmd.idx] = label

\* The command thread after a statement whose effects are `effects`: at the
\* next statement, or returned to the managed caller after the last one.
Adv(c, effects) ==
  IF c.idx < Len(OrderOf(c.op))
    THEN [c EXCEPT !.idx = @ + 1, !.trace = @ \o effects]
    ELSE IdleCmd(c.op, c.trace \o effects)

\* Entry of a native method up to its `if (!app) return;`.
Enter(op, surface) ==
  [op |-> op, idx |-> 1, app |-> GET_CUSTOM_DATA, surface |-> surface,
   new_native_window |-> NULL, last |-> op, trace |-> <<>>]

\* ------------------------------------------------------ android_launch_init
android_launch_init ==
  /\ CmdReady
  /\ FreshInstance \in Instances
  /\ cmd' = [Enter("init", NULL) EXCEPT !.app = NULL]
  /\ UNCHANGED <<staticVars, objVars, wkVars, fault>>

\* AndroidLaunch *app = g_slice_new0 (AndroidLaunch);
init_g_slice_new0 ==
  /\ At("init", "g_slice_new0")
  /\ LET a == FreshInstance IN
       /\ heap' = [heap EXCEPT ![a] = [ZeroInstance EXCEPT !.st = "live"]]
       /\ cmd' = [Adv(cmd, << <<"instance_alloc", a>> >>) EXCEPT !.app = a]
  /\ UNCHANGED <<staticVars, slot, launch, gref, win_refs, n_destroy, n_delref,
                 wkVars, fault, win_held,
                 n_str>>

\* app->launch = gst_launch_remote_new (&app_context);
init_gst_launch_remote_new ==
  /\ At("init", "gst_launch_remote_new")
  /\ launch' = [launch EXCEPT ![cmd.app] = [ZeroLaunch EXCEPT !.st = "running"]]
  /\ cmd' = Adv(cmd, << <<"pipeline_new", cmd.app>> >>)
  /\ UNCHANGED <<staticVars, slot, heap, gref, win_refs, n_destroy, n_delref,
                 wkVars, fault, win_held,
                 n_str>>

\* SET_CUSTOM_DATA (env, thiz, app_data_field_id, app);
init_SET_CUSTOM_DATA ==
  /\ At("init", "SET_CUSTOM_DATA")
  /\ slot' = cmd.app
  /\ cmd' = Adv(cmd, << <<"slot_set", cmd.app>> >>)
  /\ UNCHANGED <<staticVars, heap, launch, gref, win_refs, n_destroy, n_delref,
                 wkVars, fault, win_held,
                 n_str>>

\* app->app = (*env)->NewGlobalRef (env, thiz);
init_NewGlobalRef ==
  /\ At("init", "NewGlobalRef")
  /\ gref' = [gref EXCEPT ![cmd.app] = "valid"]
  /\ heap' = [heap EXCEPT ![cmd.app].app = cmd.app]
  /\ cmd' = Adv(cmd, << <<"owner_ref_new", cmd.app>> >>)
  /\ UNCHANGED <<staticVars, slot, launch, win_refs, n_destroy, n_delref,
                 wkVars, fault, win_held,
                 n_str>>

\* -------------------------------------------------- android_launch_finalize
android_launch_finalize ==
  /\ CmdReady
  /\ cmd' = IF GET_CUSTOM_DATA = NULL
              THEN IdleCmd("finalize", <<>>)
              ELSE Enter("finalize", NULL)
  /\ UNCHANGED <<staticVars, objVars, wkVars, fault>>

\* FREE_NON_NULL_STR (str): the effects of freeing the copy in `field`, whose
\* value is `old`, when there is one.
FREE_NON_NULL_STR(field, old) ==
  IF old # NullStr THEN << <<"g_free", field>> >> ELSE <<>>

\* DUP_STRING (dest, src) without the FREE_NON_NULL_STR of its first line:
\* the previous copy is dropped, not freed.
DUP_STRING_NoFree(field, old, src) == << <<"g_strdup", <<field, src>> >> >>

\* DUP_STRING (dest, src): the effects of freeing the old copy, if any, and
\* of duplicating the new one.
DUP_STRING(field, old, src) ==
  FREE_NON_NULL_STR(field, old) \o << <<"g_strdup", <<field, src>> >> >>

\* The number of live copies after `effects`, n being the number before.
Copies(n, effects) ==
  LET dup == Cardinality({k \in DOMAIN effects : effects[k][1] = "g_strdup"})
      free == Cardinality({k \in DOMAIN effects : effects[k][1] = "g_free"})
      m == n + dup - free
  IN IF m > CountCap THEN CountCap ELSE m

\* FREE_NON_NULL_STR(app->launch->username);
finalize_free_username ==
  /\ At("finalize", "free_username")
  /\ LET effects == FREE_NON_NULL_STR("username", launch[cmd.app].username) IN
       /\ launch' = [launch EXCEPT ![cmd.app].username = NullStr]
       /\ n_str' = [n_str EXCEPT ![cmd.app].username = Copies(@, effects)]
       /\ cmd' = Adv(cmd, effects)
  /\ UNCHANGED <<staticVars, slot, heap, gref, win_refs, n_destroy, n_delref,
                 wkVars, fault, win_held>>

\* FREE_NON_NULL_STR(app->launch->password);
finalize_free_password ==
  /\ At("finalize", "free_password")
  /\ LET effects == FREE_NON_NULL_STR("password", launch[cmd.app].password) IN
       /\ launch' = [launch EXCEPT ![cmd.app].password = NullStr]
       /\ n_str' = [n_str EXCEPT ![cmd.app].password = Copies(@, effects)]
       /\ cmd' = Adv(cmd, effects)
  /\ UNCHANGED <<staticVars, slot, heap, gref, win_refs, n_destroy, n_delref,
                 wkVars, fault, win_held>>

\* The pipeline component's destruction returns only once no callback of
\* that pipeline is running, and none starts afterwards.
PipelineQuiescent(l) == \A t \in Threads : wk[t].pc = "idle" \/ wk[t].inst # l

\* The GstLaunchRemote after gst_launch_remote_free: its memory is gone; the
\* strings the bridge duplicated into it and did not free stay allocated.
FreedLaunch(l) ==
  [ZeroLaunch EXCEPT !.st = "freed", !.uri = l.uri, !.username = l.username,
                     !.password = l.password]

\* gst_launch_remote_free (app->launch);
finalize_gst_launch_remote_free ==
  /\ At("finalize", "gst_launch_remote_free")
  /\ PipelineQuiescent(cmd.app)
  /\ launch' = [launch EXCEPT ![cmd.app] = FreedLaunch(@)]
  /\ n_destroy' = [n_destroy EXCEPT ![cmd.app] = Bump(@)]
  /\ cmd' = Adv(cmd, << <<"pipeline_destroy", cmd.app>> >>)
  /\ UNCHANGED <<staticVars, slot, heap, gref, win_refs, n_delref, wkVars, fault, win_held,
                 n_str>>

\* (*env)->DeleteGlobalRef (env, app->app);
finalize_DeleteGlobalRef ==
  /\ At("finalize", "DeleteGlobalRef")
  /\ LET r == heap[cmd.app].app IN
       IF r = NULL
         THEN /\ cmd' = Adv(cmd, <<>>)
              /\ UNCHANGED <<gref, n_delref>>
         ELSE /\ gref' = [gref EXCEPT ![r] = "deleted"]
              /\ n_delref' = [n_delref EXCEPT ![r] = Bump(@)]
              /\ cmd' = Adv(cmd, << <<"owner_ref_release", r>> >>)
  /\ UNCHANGED <<staticVars, slot, heap, launch, win_refs, n_destroy, wkVars, fault, win_held,
                 n_str>>

\* g_slice_free (AndroidLaunch, app);
finalize_g_slice_free ==
  /\ At("finalize", "g_slice_free")
  /\ heap' = [heap EXCEPT ![cmd.app].st = "freed"]
  /\ cmd' = Adv(cmd, << <<"instance_free", cmd.app>> >>)
  /\ UNCHANGED <<staticVars, slot, launch, gref, win_refs, n_destroy, n_delref,
                 wkVars, fault, win_held,
                 n_str>>

\* SET_CUSTOM_DATA (env, thiz, app_data_field_id, NULL);
finalize_SET_CUSTOM_DATA ==
  /\ At("finalize", "SET_CUSTOM_DATA_NULL")
  /\ slot' = NULL
  /\ cmd' = Adv(cmd, << <<"slot_clear", cmd.app>> >>)
  /\ UNCHANGED <<staticVars, heap, launch, gref, win_refs, n_destroy, n_delref,
                 wkVars, fault, win_held,
                 n_str>>

\* ----------------------------------------------- native windows (surfaces)
\* ANativeWindow_release (w) on a non-null window: one reference less.
\* Releasing a window that holds no reference is a fault.
ReleaseWindow(w) ==
  IF win_refs[w] > 0
    THEN /\ win_refs' = [win_refs EXCEPT ![w] = @ - 1]
         /\ win_held' = [win_held EXCEPT ![cmd.app] = @ - 1]
         /\ UNCHANGED fault
    ELSE /\ fault' = "release_dead_window"
         /\ UNCHANGED <<win_refs, win_held>>

android_launch_surface_init ==
  /\ CmdReady
  /\ \E surface \in Surfaces :
       cmd' = IF GET_CUSTOM_DATA = NULL
                THEN IdleCmd("surface_init", <<>>)
                ELSE Enter("surface_init", surface)
  /\ UNCHANGED <<staticVars, objVars, wkVars, fault>>

\* new_native_window = ANativeWindow_fromSurface (env, surface);
surface_init_fromSurface ==
  /\ At("surface_init", "ANativeWindow_fromSurface")
  /\ win_refs' = [win_refs EXCEPT ![cmd.surface] = @ + 1]
  /\ win_held' = [win_held EXCEPT ![cmd.app] = @ + 1]
  /\ cmd' = [Adv(cmd, << <<"window_acquire", cmd.surface>> >>)
               EXCEPT !.new_native_window = cmd.surface]
  /\ UNCHANGED <<staticVars, slot, heap, launch, gref, n_destroy, n_delref,
                 wkVars, fault, n_str>>

\* if (app->native_window) { ANativeWindow_release (app->native_window); }
surface_init_release_old ==
  /\ At("surface_init", "release_old_window")
  /\ LET old == heap[cmd.app].native_window IN
       IF old # NULL
         THEN /\ ReleaseWindow(old)
              /\ cmd' = Adv(cmd, << <<"window_release", old>> >>)
         ELSE /\ cmd' = Adv(cmd, <<>>)
              /\ UNCHANGED <<win_refs, win_held, fault>>
  /\ UNCHANGED <<staticVars, slot, heap, launch, gref, n_destroy, n_delref, wkVars,
                 n_str>>

\* app->native_window = new_native_window;
surface_init_store ==
  /\ At("surface_init", "store_native_window")
  /\ heap' = [heap EXCEPT ![cmd.app].native_window = cmd.new_native_window]
  /\ cmd' = Adv(cmd, << <<"store_window", cmd.new_native_window>> >>)
  /\ UNCHANGED <<staticVars, slot, launch, gref, win_refs, n_destroy, n_delref,
                 wkVars, fault, win_held,
                 n_str>>

\* gst_launch_remote_set_window_handle (app->launch, (guintptr) new_native_window);
surface_init_set_window_handle ==
  /\ At("surface_init", "set_window_handle")
  /\ launch' = [launch EXCEPT ![cmd.app].window_handle = cmd.new_native_window]
  /\ cmd' = Adv(cmd, << <<"pipeline_set_window", cmd.new_native_window>> >>)
  /\ UNCHANGED <<staticVars, slot, heap, gref, win_refs, n_destroy, n_delref,
                 wkVars, fault, win_held,
                 n_str>>

android_launch_surface_finalize ==
  /\ CmdReady
  /\ cmd' = IF GET_CUSTOM_DATA = NULL
              THEN IdleCmd("surface_finalize", <<>>)
              ELSE Enter("surface_finalize", NULL)
  /\ UNCHANGED <<staticVars, objVars, wkVars, fault>>

\* gst_launch_remote_set_window_handle (app->launch, (guintptr) NULL);
surface_finalize_set_window_handle ==
  /\ At("surface_finalize", "set_window_handle_null")
  /\ launch' = [launch EXCEPT ![cmd.app].window_handle = NULL]
  /\ cmd' = Adv(cmd, << <<"pipeline_set_window", NULL>> >>)
  /\ UNCHANGED <<staticVars, slot, heap, gref, win_refs, n_destroy, n_delref,
                 wkVars, fault, win_held,
                 n_str>>

\* ANativeWindow_release (app->native_window);  -- not guarded: with no
\* window stored the argument is NULL, which the platform does not define
\* (the process faults, or the call is ignored).
surface_finalize_release ==
  /\ At("surface_finalize", "ANativeWindow_release")
  /\ LET w == heap[cmd.app].native_window IN
       IF w # NULL
         THEN /\ ReleaseWindow(w)
              /\ cmd' = Adv(cmd, << <<"window_release", w>> >>)
         ELSE \E outcome \in {"fault", "ignored"} :
                /\ fault' = IF outcome = "fault" THEN "release_null_window" ELSE fault
                /\ cmd' = Adv(cmd, << <<"window_release", NULL>> >>)
                /\ UNCHANGED <<win_refs, win_held>>
  /\ UNCHANGED <<staticVars, slot, heap, launch, gref, n_destroy, n_delref, wkVars,
                 n_str>>

\* app->native_window = NULL;
surface_finalize_store_null ==
  /\ At("surface_finalize", "store_null")
  /\ heap' = [heap EXCEPT ![cmd.app].native_window = NULL]
  /\ cmd' = Adv(cmd, << <<"store_window", NULL>> >>)
  /\ UNCHANGED <<staticVars, slot, launch, gref, win_refs, n_destroy, n_delref,
                 wkVars, fault, win_held,
                 n_str>>

\* ------------------------------------------- single-statement native methods
\* A native method whose body after `if (!app) return;` is `body(app)`,
\* with the effects `effects(app)`.
Absent(op) ==
  /\ GET_CUSTOM_DATA = NULL
  /\ cmd' = IdleCmd(op, <<>>)
  /\ UNCHANGED <<staticVars, objVars, wkVars, fault>>

Java_io_evercam_androidapp_video_VideoActivity_nativeSetUsername ==
  /\ CmdReady
  /\ \/ Absent("set_username")
     \/ /\ GET_CUSTOM_DATA # NULL
        /\ \E v \in Usernames :
             LET effects == DUP_STRING("username", launch[GET_CUSTOM_DATA].username, v) IN
               /\ launch' = [launch EXCEPT ![GET_CUSTOM_DATA].username = v]
               /\ n_str' = [n_str EXCEPT ![GET_CUSTOM_DATA].username = Copies(@, effects)]
               /\ cmd' = IdleCmd("set_username", effects)
        /\ UNCHANGED <<staticVars, slot, heap, gref, win_refs, n_destroy, n_delref,
                       wkVars, fault, win_held>>

Java_io_evercam_androidapp_video_VideoActivity_nativeSetPassword ==
  /\ CmdReady
  /\ \/ Absent("set_password")
     \/ /\ GET_CUSTOM_DATA # NULL
        /\ \E v \in Passwords :
             LET effects == DUP_STRING("password", launch[GET_CUSTOM_DATA].password, v) IN
               /\ launch' = [launch EXCEPT ![GET_CUSTOM_DATA].password = v]
               /\ n_str' = [n_str EXCEPT ![GET_CUSTOM_DATA].password = Copies(@, effects)]
               /\ cmd' = IdleCmd("set_password", effects)
        /\ UNCHANGED <<staticVars, slot, heap, gref, win_refs, n_destroy, n_delref,
                       wkVars, fault, win_held>>

Java_io_evercam_androidapp_video_VideoActivity_nativeSetUri ==
  /\ CmdReady
  /\ \/ Absent("set_uri")
     \/ /\ GET_CUSTOM_DATA # NULL
        /\ \E v \in Uris :
             LET effects == DUP_STRING("uri", launch[GET_CUSTOM_DATA].uri, v) IN
               /\ launch' = [launch EXCEPT ![GET_CUSTOM_DATA].uri = v]
               /\ n_str' = [n_str EXCEPT ![GET_CUSTOM_DATA].uri = Copies(@, effects)]
               /\ cmd' = IdleCmd("set_uri", effects)
        /\ UNCHANGED <<staticVars, slot, heap, gref, win_refs, n_destroy, n_delref,
                       wkVars, fault, win_held>>

Java_io_evercam_androidapp_video_VideoActivity_nativeSetTcpTimeout ==
  /\ CmdReady
  /\ \/ Absent("set_timeout")
     \/ /\ GET_CUSTOM_DATA # NULL
        /\ \E v \in Timeouts :
             /\ launch' = [launch EXCEPT ![GET_CUSTOM_DATA].tcp_timeout = v]
             /\ cmd' = IdleCmd("set_timeout", << <<"set_tcp_timeout", v>> >>)
        /\ UNCHANGED <<staticVars, slot, heap, gref, win_refs, n_destroy, n_delref,
                       wkVars, fault, win_held,
                 n_str>>

\* nativeRequestSample: reads the pipeline's "sample" property and writes it
\* to a file, with no test of the sample or of the file: it faults when
\* either is missing.
Java_io_evercam_androidapp_video_VideoActivity_nativeRequestSample ==
  /\ CmdReady
  /\ \/ Absent("request_sample")
     \/ /\ GET_CUSTOM_DATA # NULL
        /\ \E sample_ok \in BOOLEAN :
             fault' = IF sample_ok THEN fault ELSE "request_sample"
        /\ cmd' = IdleCmd("request_sample", << <<"pipeline_get_sample", GET_CUSTOM_DATA>> >>)
        /\ UNCHANGED <<staticVars, objVars, wkVars>>

\* gst_launch_remote_play / _pause / _stop (app->launch): the transition is
\* forwarded to the pipeline; the bridge keeps nothing of it.
Transition(op) ==
  /\ CmdReady
  /\ \/ Absent(op)
     \/ /\ GET_CUSTOM_DATA # NULL
        /\ cmd' = IdleCmd(op, << <<"pipeline_" \o op, GET_CUSTOM_DATA>> >>)
        /\ UNCHANGED <<staticVars, objVars, wkVars, fault>>

\* android_launch_stop without its `if (!app) return;`: app->launch is read
\* through a null app.
android_launch_stop_unchecked ==
  /\ CmdReady
  /\ cmd' = IdleCmd("stop", << <<"pipeline_stop", GET_CUSTOM_DATA>> >>)
  /\ fault' = IF GET_CUSTOM_DATA = NULL THEN "null_app" ELSE fault
  /\ UNCHANGED <<staticVars, objVars, wkVars>>

android_launch_play == Transition("play")

android_launch_pause == Transition("pause")

android_launch_stop == Transition("stop")

\* ------------------------------------------------------- worker threads
\* The jmethodID each callback passes to CallVoidMethod.
MethodIdOf(kind) ==
  CASE kind = "set_message" -> "set_message_method_id"
    [] kind = "set_error" -> "on_error_method_id"
    [] kind = "set_current_position" -> "set_current_position_method_id"
    [] kind = "media_size_changed" -> "on_media_size_changed_method_id"
    [] kind = "notify_about_video_loaded" -> "on_video_loaded_method_id"
    [] kind = "initialized" -> "on_gstreamer_initialized_method_id"

\* The arguments the pipeline passes to each callback.
ArgsOf(kind) ==
  CASE kind = "set_message" -> MessageArgs
    [] kind = "set_error" -> ErrorArgs
    [] kind = "set_current_position" -> IntPairArgs
    [] kind = "media_size_changed" -> IntPairArgs
    [] OTHER -> {<<>>}

\* set_message and set_error build a jstring before the call.
HasString(kind) == kind \in {"set_message", "set_error"}

\* attach_current_thread: the JNIEnv of the thread, NULL when
\* AttachCurrentThread fails.
attach_current_thread(t, attach_ok) == IF attach_ok THEN Env(t) ELSE NULL

\* get_jni_env keeping the environment in one variable of the process instead
\* of a thread-specific one: the first environment stored serves every thread.
get_jni_env_shared(t, attach_ok) ==
  IF \E u \in Threads : tls[u] # NULL
    THEN tls[CHOOSE u \in Threads : tls[u] # NULL]
    ELSE IF attach_ok THEN Env(t) ELSE NULL

\* get_jni_env attaching on every call, whatever the thread has stored.
NeedsAttach_Always(t) == TRUE

\* (env = pthread_getspecific (current_jni_env)) == NULL
NeedsAttach(t) == tls[t] = NULL

\* get_jni_env: the stored environment, or the result of attaching, which is
\* stored whatever it is.
get_jni_env(t, attach_ok) ==
  IF NeedsAttach(t) THEN attach_current_thread(t, attach_ok) ELSE tls[t]

\* The pipeline calls back only while it exists.
PipelineEmits(i) == launch[i].st = "running"

\* The pipeline calls callback `kind` with user_data i on thread t; the callback
\* runs up to the read of app->app in its CallVoidMethod statement:
\* get_jni_env (), then the first use of env ((*env)->NewStringUTF in
\* set_message and set_error, (*env)->CallVoidMethod in the others), which
\* dereferences env and faults when env is NULL.  With an exception of an
\* earlier call still pending in env, that use is not defined by the
\* runtime: the process faults, or the call goes on.
callback_entry(t) ==
  /\ fault = "none"
  /\ wk[t].pc = "idle"
  /\ \E i \in Instances, kind \in Kinds, attach_ok \in BOOLEAN :
       /\ PipelineEmits(i)
       /\ \E arg \in ArgsOf(kind) :
            LET env == get_jni_env(t, attach_ok)
                w == [wk[t] EXCEPT !.kind = kind, !.inst = i, !.env = env,
                                   !.arg = arg, !.calls = <<>>]
            IN /\ tls' = [tls EXCEPT ![t] = env]
               /\ n_attach' = [n_attach EXCEPT ![t] =
                                 IF NeedsAttach(t) /\ env # NULL THEN Bump(@) ELSE @]
               /\ IF env = NULL
                    THEN /\ wk' = [wk EXCEPT ![t] = [w EXCEPT !.pc = "faulted"]]
                         /\ fault' = "null_env"
                    ELSE \E outcome \in IF wk[t].exc THEN {"fault", "goes_on"}
                                                    ELSE {"goes_on"} :
                           IF outcome = "fault"
                             THEN /\ wk' = [wk EXCEPT ![t] = [w EXCEPT !.pc = "faulted"]]
                                  /\ fault' = "pending_exception"
                             ELSE /\ wk' = [wk EXCEPT ![t] =
                                              [w EXCEPT !.pc = "CallVoidMethod",
                                                        !.jmessage = HasString(kind)]]
                                  /\ UNCHANGED fault
  /\ UNCHANGED <<staticVars, objVars, cmd, rendered, n_detach>>

\* A callback without the exception check after its CallVoidMethod.
ExceptionCheckClear_Unchecked(pending) == pending

\* if ((*env)->ExceptionCheck (env)) { ...; (*env)->ExceptionClear (env); }
\* -- whether an exception is pending in env afterwards.
ExceptionCheckClear(pending) == IF pending THEN FALSE ELSE pending

\* (*env)->DeleteLocalRef (env, jmessage);  -- whether the local reference
\* is live afterwards.  It is the last statement of set_message and
\* set_error, on every path.
DeleteLocalRef(jmessage) == IF jmessage THEN FALSE ELSE jmessage

\* The callback from its CallVoidMethod to its end:
\* (*env)->CallVoidMethod (env, app->app, <method id>, ...) reads app->app
\* and calls the owner; then the exception check, and DeleteLocalRef in
\* set_message and set_error.  A call on a null or deleted reference, on a
\* freed instance or through a null method identifier is not defined by
\* the runtime: the process faults, or an exception is left pending and
\* the owner is not called.  The owner's method may raise an exception.
callback_CallVoidMethod(t) ==
  /\ fault = "none"
  /\ wk[t].pc = "CallVoidMethod"
  /\ LET w == wk[t]
         obj == heap[w.inst].app
         defined == /\ heap[w.inst].st = "live"
                    /\ obj # NULL
                    /\ gref[obj] = "valid"
                    /\ ids[MethodIdOf(w.kind)]
         done(c, pending) == [w EXCEPT !.pc = "return", !.calls = c,
                                       !.exc = ExceptionCheckClear(pending),
                                       !.jmessage = DeleteLocalRef(@)]
     IN IF defined
            THEN /\ \E throws \in BOOLEAN :
                      wk' = [wk EXCEPT ![t] =
                               done(Append(w.calls,
                                      [method |-> MethodIdOf(w.kind), obj |-> obj,
                                       env |-> w.env, thread |-> t,
                                       args |-> w.arg, threw |-> throws]),
                                    throws)]
                 /\ UNCHANGED fault
            ELSE \E outcome \in {"fault", "exception"} :
                   IF outcome = "fault"
                     THEN /\ wk' = [wk EXCEPT ![t].pc = "faulted"]
                          /\ fault' = "undefined_call"
                     ELSE /\ wk' = [wk EXCEPT ![t] = done(w.calls, TRUE)]
                          /\ UNCHANGED fault
  /\ UNCHANGED <<staticVars, objVars, cmd, tls, rendered, n_attach, n_detach>>

\* The callback returns to the pipeline.  What it left in the thread's
\* environment (a pending exception, a local reference) stays there.
callback_return(t) ==
  /\ fault = "none"
  /\ wk[t].pc = "return"
  /\ wk' = [wk EXCEPT ![t] = [IdleWk EXCEPT !.exc = wk[t].exc,
                                           !.jmessage = wk[t].jmessage]]
  /\ UNCHANGED <<staticVars, objVars, cmd, tls, rendered, n_attach, n_detach, fault>>

\* Worker thread t exits.  The destructor given to pthread_key_create,
\* detach_current_thread, runs for the thread when its value of
\* current_jni_env is not NULL; the value is reset to NULL before it runs.
thread_exit(t) ==
  /\ fault = "none"
  /\ loaded = "ok"
  /\ wk[t].pc = "idle"
  /\ wk' = [wk EXCEPT ![t] = [IdleWk EXCEPT !.pc = "exited"]]
  /\ tls' = [tls EXCEPT ![t] = NULL]
  /\ n_detach' = [n_detach EXCEPT ![t] = IF tls[t] # NULL THEN Bump(@) ELSE @]
  /\ UNCHANGED <<staticVars, objVars, cmd, rendered, n_attach, fault>>

\* A worker of a running pipeline renders to the window handle the pipeline
\* holds.  Rendering to a window whose reference was released is not
\* defined: the process faults, or the frame is drawn.
Render ==
  /\ fault = "none"
  /\ \E i \in Instances :
       /\ launch[i].st = "running"
       /\ LET w == launch[i].window_handle IN
            IF w = NULL \/ win_refs[w] > 0
              THEN rendered' = w /\ UNCHANGED fault
              ELSE \E outcome \in {"fault", "drawn"} :
                     /\ rendered' = w
                     /\ fault' = IF outcome = "fault"
                                   THEN "render_released_window" ELSE fault
  /\ UNCHANGED <<staticVars, objVars, cmd, wk, tls, n_attach, n_detach>>

\* ----------------------------------------------------------- specifications
Registration == JNI_OnLoad \/ android_launch_class_init

Lifecycle ==
  \/ android_launch_init
  \/ init_g_slice_new0
  \/ init_gst_launch_remote_new
  \/ init_SET_CUSTOM_DATA
  \/ init_NewGlobalRef
  \/ android_launch_finalize
  \/ finalize_free_username
  \/ finalize_free_password
  \/ finalize_gst_launch_remote_free
  \/ finalize_DeleteGlobalRef
  \/ finalize_g_slice_free
  \/ finalize_SET_CUSTOM_DATA

SurfaceCommands ==
  \/ android_launch_surface_init
  \/ surface_init_fromSurface
  \/ surface_init_release_old
  \/ surface_init_store
  \/ surface_init_set_window_handle
  \/ android_launch_surface_finalize
  \/ surface_finalize_set_window_handle
  \/ surface_finalize_release
  \/ surface_finalize_store_null

ScalarCommands ==
  \/ Java_io_evercam_androidapp_video_VideoActivity_nativeSetUsername
  \/ Java_io_evercam_androidapp_video_VideoActivity_nativeSetPassword
  \/ Java_io_evercam_androidapp_video_VideoActivity_nativeSetTcpTimeout
  \/ Java_io_evercam_androidapp_video_VideoActivity_nativeRequestSample
  \/ android_launch_pause
  \/ android_launch_stop

ScenarioCommands ==
  \/ Java_io_evercam_androidapp_video_VideoActivity_nativeSetUri
  \/ android_launch_play

Callbacks ==
  \E t \in Threads :
    \/ callback_entry(t)
    \/ callback_CallVoidMethod(t)
    \/ callback_return(t)

\* The whole bridge.
Next ==
  \/ Registration
  \/ Lifecycle
  \/ SurfaceCommands
  \/ ScalarCommands
  \/ ScenarioCommands
  \/ Callbacks
  \/ Render

Spec == Init /\ [][Next]_vars

\* The surface / window lifecycle with the pipeline's rendering.
NextWindow == Registration \/ Lifecycle \/ SurfaceCommands \/ Render

SpecWindow == Init /\ [][NextWindow]_vars

\* The callback dispatcher against init, set-uri, play and finalize.
NextCallback == Registration \/ Lifecycle \/ ScenarioCommands \/ Callbacks

SpecCallback == Init /\ [][NextCallback]_vars

\* Every command of the managed side, without the pipeline's threads.
NextCommand ==
  Registration \/ Lifecycle \/ SurfaceCommands \/ ScalarCommands \/ ScenarioCommands

SpecCommand == Init /\ [][NextCommand]_vars

\* The callback dispatcher against init, play, stop and finalize.
NextError ==
  \/ Registration
  \/ Lifecycle
  \/ android_launch_play
  \/ android_launch_stop
  \/ Callbacks

SpecError == Init /\ [][NextError]_vars

\* The three string setters against init and finalize.
NextString ==
  \/ Registration
  \/ Lifecycle
  \/ Java_io_evercam_androidapp_video_VideoActivity_nativeSetUsername
  \/ Java_io_evercam_androidapp_video_VideoActivity_nativeSetPassword
  \/ Java_io_evercam_androidapp_video_VideoActivity_nativeSetUri

SpecString == Init /\ [][NextString]_vars

\* The worker threads from their first callback to their exit, against init.
NextThread ==
  \/ Registration
  \/ android_launch_init
  \/ init_g_slice_new0
  \/ init_gst_launch_remote_new
  \/ init_SET_CUSTOM_DATA
  \/ init_NewGlobalRef
  \/ Callbacks
  \/ \E t \in Threads : thread_exit(t)

SpecThread == Init /\ [][NextThread]_vars

\* ------------------------------------------------------------------ claims
\* The instance the command thread works on: of the running native method,
\* or, once it returned, the one in the owner's field.
CmdInstance == IF cmd.op = "idle" THEN slot ELSE cmd.app

\* The positions of effect `tag` in the effects of the current native method.
Effects(tag) == {k \in DOMAIN cmd.trace : cmd.trace[k][1] = tag}

IsPrefix(a, b) == Len(a) <= Len(b) /\ a = SubSeq(b, 1, Len(a))

\* C1: a native window whose reference has been released is never the
\* window a running pipeline holds: every window handle a pipeline holds has
\* an unreleased reference.
C1_ReleasedWindowNotHeld ==
  \A i \in Instances :
    (launch[i].st = "running" /\ launch[i].window_handle # NULL)
      => win_refs[launch[i].window_handle] > 0

\* The instance of the running surface-init had a window when it was entered:
\* the stored window is the old one until the new one is stored, and the old
\* one is released only when there was one.
HadWindow ==
  IF Effects("store_window") = {}
    THEN heap[cmd.app].native_window # NULL
    ELSE Effects("window_release") # {}

\* C2: in surface-init(S2) on an instance that holds the window of S1, the
\* pipeline's window handle is never null, and the window of S1 is released
\* only after the window of S2 has been installed on the pipeline.
C2_InstallBeforeRelease ==
  cmd.last = "surface_init" =>
    /\ \A k \in Effects("window_release") :
         cmd.trace[k][2] # cmd.trace[1][2] =>
           \E j \in Effects("pipeline_set_window") :
             j < k /\ cmd.trace[j][2] = cmd.trace[1][2]
    /\ (cmd.op = "surface_init" /\ HadWindow) => launch[cmd.app].window_handle # NULL

\* The effects of surface-finalize on an instance whose window is w.
SurfaceFinalizeEffects(w) ==
  << <<"pipeline_set_window", NULL>>, <<"window_release", w>>,
     <<"store_window", NULL>> >>

\* C3: surface-finalize in HAS_WINDOW clears the pipeline's window handle,
\* then releases the native window, then clears the stored window; the
\* pipeline's handle is null when the window is released, and on return the
\* pipeline's and the instance's window are both null.
C3_SurfaceFinalizeOrder ==
  (cmd.last = "surface_finalize" /\ CmdInstance # NULL) =>
    LET i == CmdInstance
        w == heap[i].native_window
        released == {cmd.trace[k][2] : k \in Effects("window_release")} \ {NULL}
    IN /\ (cmd.op = "surface_finalize" /\ w # NULL)
            => IsPrefix(cmd.trace, SurfaceFinalizeEffects(w))
       /\ \A r \in released :
            /\ IsPrefix(cmd.trace, SurfaceFinalizeEffects(r))
            /\ launch[i].window_handle = NULL
       /\ (cmd.op = "idle" /\ released # {})
            => /\ Len(cmd.trace) = 3
               /\ launch[i].window_handle = NULL
               /\ heap[i].native_window = NULL

\* surface-finalize returned after it detached window 1 (HAS_WINDOW -> NO_WINDOW).
C3_Witness ==
  /\ cmd.op = "idle"
  /\ cmd.last = "surface_finalize"
  /\ cmd.trace = SurfaceFinalizeEffects(1)
  /\ slot # NULL
  /\ heap[slot].native_window = NULL

\* C4: while an instance's pipeline exists, the instance's owner reference
\* is a valid, non-null global reference.
C4_OwnerRefValidWhilePipeline ==
  \A i \in Instances :
    launch[i].st = "running" => (heap[i].app # NULL /\ gref[heap[i].app] = "valid")

\* A callback is running on instance i.
InFlight(t, i) == wk[t].pc \in {"CallVoidMethod", "return"} /\ wk[t].inst = i

\* C5: finalize destroys the pipeline before it releases the owner reference
\* and frees the instance, so that no callback runs on an instance whose
\* owner reference is released or whose memory is freed.
C5_NoCallbackAfterRelease ==
  \A i \in Instances :
    (gref[i] = "deleted" \/ heap[i].st = "freed") =>
      /\ launch[i].st = "freed"
      /\ \A t \in Threads : ~InFlight(t, i)

\* finalize waits in gst_launch_remote_free for a callback that is about to
\* read app->app of the instance being finalized.
C5_Witness ==
  /\ At("finalize", "gst_launch_remote_free")
  /\ \E t \in Threads : wk[t].pc = "CallVoidMethod" /\ wk[t].inst = cmd.app

\* The command thread enters native method `op` in this step.
Calls(op) == cmd.op = "idle" /\ cmd' # cmd /\ cmd'.last = op

\* C6: a command other than init issued while the owner's field holds no
\* instance returns at once and does nothing: no pipeline operation, no
\* window acquired or released, no owner reference made or released, no
\* fault, and the field stays unset.
C6_AbsentInstanceNoOp ==
  [][ (slot = NULL /\ cmd.op = "idle" /\ cmd' # cmd /\ cmd'.last # "init")
        => /\ cmd'.op = "idle"
           /\ cmd'.trace = <<>>
           /\ slot' = NULL
           /\ UNCHANGED <<objVars, wkVars, fault>> ]_vars

\* request-sample was called after finalize had freed instance 1 and
\* cleared the field, and did nothing.
C6_Witness ==
  /\ slot = NULL
  /\ heap[1].st = "freed"
  /\ cmd = IdleCmd("request_sample", <<>>)
  /\ fault = "none"

\* C7: finalize with no instance in the owner's field (after a finalize, or
\* with no init before) changes nothing, and over any run the pipeline of an
\* instance is destroyed at most once and its owner reference released at
\* most once.
C7_FinalizeIdempotent ==
  /\ [](\A i \in Instances : n_destroy[i] <= 1 /\ n_delref[i] <= 1)
  /\ [][ (slot = NULL /\ Calls("finalize"))
           => /\ cmd' = IdleCmd("finalize", <<>>)
              /\ UNCHANGED <<staticVars, objVars, wkVars, fault>> ]_vars

\* finalize was called again after the finalize of instance 1, the only
\* instance ever made, and returned without any effect.
C7_Witness ==
  /\ cmd = IdleCmd("finalize", <<>>)
  /\ slot = NULL
  /\ heap[1].st = "freed"
  /\ \A i \in Instances \ {1} : heap[i].st = "unalloc"
  /\ n_destroy[1] = 1
  /\ n_delref[1] = 1

\* C8: a callback whose thread could not be attached (get_jni_env gave NULL)
\* is dropped: the absent environment is never used, the owner is not
\* called, and no fault arises.
C8_AttachFailureDropsCallback ==
  /\ fault # "null_env"
  /\ \A t \in Threads :
       (wk[t].kind # "none" /\ wk[t].env = NULL)
         => (wk[t].pc \in {"idle", "return"} /\ wk[t].calls = <<>>)

\* C9: class-init returns true only when the field and all six methods are
\* resolved, and false whenever one of them is not.
C9_ClassInitChecksAllIds ==
  /\ class_init_ret = "true" => \A n \in IdNames : ids[n]
  /\ class_init_ret = "false" => \E n \in IdNames : ~ids[n]

\* The scenario init -> set-uri -> play has just been run on instance i: i is
\* in the owner's field with its owner reference, a URI is cached, and play
\* is the last command that ran.
ScenarioDone(i) ==
  /\ i # NULL
  /\ slot = i
  /\ heap[i].app # NULL
  /\ launch[i].uri # NullStr
  /\ cmd = IdleCmd("play", << <<"pipeline_play", i>> >>)

\* The one call of onGStreamerInitialized a `ready` callback on thread t makes.
ReadyCall(t, i, threw) ==
  [method |-> "on_gstreamer_initialized_method_id", obj |-> heap[i].app,
   env |-> Env(t), thread |-> t, args |-> <<>>, threw |-> threw]

\* C10 as stated: every `ready` event the pipeline emits after init, set-uri
\* and play makes its callback call onGStreamerInitialized exactly once, on
\* the emitting thread with that thread's environment: the callback never
\* ends in a fault, and returns with exactly that one call made.
C10_ReadyInvokesOnce ==
  \A t \in Threads :
    (wk[t].kind = "initialized" /\ ScenarioDone(wk[t].inst)) =>
      /\ wk[t].pc # "faulted"
      /\ (wk[t].pc = "return" /\ wk[t].calls # <<>>)
           => \E threw \in BOOLEAN : wk[t].calls = <<ReadyCall(t, wk[t].inst, threw)>>

\* C10, the part that holds: a `ready` callback that got an environment for its thread
\* (the thread was attached, or its attach succeeded) and whose instance
\* has completed init calls onGStreamerInitialized exactly once before it
\* returns, on its own thread, with the environment of that thread and of
\* no other; no callback makes more than one call.
C10_ReadyInvokesOnceWhenAttached ==
  /\ [](\A t \in Threads :
          /\ Len(wk[t].calls) <= 1
          /\ wk[t].pc \in {"CallVoidMethod", "return"}
               => (wk[t].env = Env(t) /\ tls[t] = Env(t)))
  /\ [][ \A t \in Threads :
           ( /\ wk[t].pc = "CallVoidMethod"
             /\ wk[t].kind = "initialized"
             /\ wk'[t] # wk[t]
             /\ heap[wk[t].inst].app # NULL )
           => /\ wk'[t].pc = "return"
              /\ \E threw \in BOOLEAN :
                   wk'[t].calls = <<ReadyCall(t, wk[t].inst, threw)>> ]_vars

\* After init, set-uri and play, a `ready` callback on thread 2 is about to
\* return having called onGStreamerInitialized once with the environment
\* of thread 2, while thread 1 holds its own environment.
C10_Witness ==
  /\ wk[2].pc = "return"
  /\ wk[2].kind = "initialized"
  /\ ScenarioDone(wk[2].inst)
  /\ \E threw \in BOOLEAN : wk[2].calls = <<ReadyCall(2, wk[2].inst, threw)>>
  /\ tls[1] = Env(1)
  /\ tls[2] = Env(2)

\* init and then play have just been run on instance i: i is in the owner's
\* field with its owner reference, and play is the last command that ran.
PlayDone(i) ==
  /\ i # NULL
  /\ slot = i
  /\ heap[i].app # NULL
  /\ cmd = IdleCmd("play", << <<"pipeline_play", i>> >>)

\* The one call of onError an error callback on thread t makes for the
\* (message, code) pair arg.
ErrorCall(t, i, arg, threw) ==
  [method |-> "on_error_method_id", obj |-> heap[i].app, env |-> Env(t),
   thread |-> t, args |-> arg, threw |-> threw]

\* C11: every error(message, code) event the pipeline emits after init and
\* play makes its callback call the owner's onError exactly once with that
\* message and that code: the callback never ends in a fault and returns
\* with exactly that one call made; a stop that follows is forwarded to the
\* pipeline, and a finalize that follows destroys the pipeline, frees the
\* instance and clears the owner's field.
C11_ErrorInvokesOnErrorOnce ==
  /\ \A t \in Threads :
       (wk[t].kind = "set_error" /\ PlayDone(wk[t].inst)) =>
         /\ wk[t].pc # "faulted"
         /\ wk[t].pc = "return"
              => \E threw \in BOOLEAN :
                   wk[t].calls = <<ErrorCall(t, wk[t].inst, wk[t].arg, threw)>>
  /\ (cmd.op = "idle" /\ cmd.last = "stop" /\ slot # NULL)
       => cmd.trace = << <<"pipeline_stop", slot>> >>
  /\ (cmd.op = "idle" /\ cmd.last = "finalize" /\ cmd.trace # <<>>)
       => /\ slot = NULL
          /\ \E i \in Instances :
               /\ <<"pipeline_destroy", i>> \in {cmd.trace[k] : k \in DOMAIN cmd.trace}
               /\ launch[i].st = "freed"
               /\ heap[i].st = "freed"

\* The string field each setter fills.
SetterField(op) ==
  CASE op = "set_uri" -> "uri"
    [] op = "set_username" -> "username"
    [] op = "set_password" -> "password"

\* C12: each of set-uri, set-username and set-password on an initialized
\* instance leaves the value of that call cached, frees the previous copy
\* (once, and only when there was one) and allocates one new copy, and
\* leaves the other two cached values and their copies alone; at any time
\* a pipeline has exactly one live copy for each value it caches and none
\* for a value it does not cache.
C12_LastWriteWins ==
  /\ [](\A i \in Instances : \A f \in StringFields :
          launch[i].st = "running"
            => n_str[i][f] = IF launch[i][f] = NullStr THEN 0 ELSE 1)
  /\ [][ \A op \in {"set_uri", "set_username", "set_password"} :
           (slot # NULL /\ Calls(op)) =>
             LET f == SetterField(op)
                 old == launch[slot][f]
                 v == cmd'.trace[Len(cmd'.trace)][2][2]
             IN /\ cmd'.op = "idle"
                /\ cmd'.trace = (IF old # NullStr THEN << <<"g_free", f>> >> ELSE <<>>)
                                   \o << <<"g_strdup", <<f, v>> >> >>
                /\ launch'[slot][f] = v
                /\ \A g \in StringFields \ {f} :
                     /\ launch'[slot][g] = launch[slot][g]
                     /\ n_str'[slot][g] = n_str[slot][g] ]_vars

\* set-uri("b") has replaced a cached URI: the copy of the earlier value was
\* freed, "b" is cached in one copy, and a username is cached beside it.
C12_Witness ==
  /\ slot # NULL
  /\ cmd = IdleCmd("set_uri", << <<"g_free", "uri">>, <<"g_strdup", <<"uri", "b">> >> >>)
  /\ launch[slot].uri = "b"
  /\ n_str[slot].uri = 1
  /\ launch[slot].username = "u"
  /\ n_str[slot].username = 1

\* C13: a callback whose owner method raised an exception returns to the
\* pipeline with no exception pending in its thread's environment and with
\* the jstring it made released; nothing of it is left in the environment
\* for the next callback on the thread, which never meets a pending
\* exception.
C13_FaultClearedBeforeReturn ==
  /\ fault # "pending_exception"
  /\ \A t \in Threads :
       wk[t].pc \in {"return", "idle"} => (~wk[t].exc /\ ~wk[t].jmessage)
  /\ \A t \in Threads :
       (wk[t].pc = "CallVoidMethod" /\ ~HasString(wk[t].kind)) => ~wk[t].jmessage

\* Thread 1 is about to return from a set_error callback whose onError
\* call raised an exception, thread 2 from an initialized callback whose
\* call raised one; both environments are clean.
C13_Witness ==
  /\ wk[1].pc = "return"
  /\ wk[1].kind = "set_error"
  /\ Len(wk[1].calls) = 1
  /\ wk[1].calls[1].threw
  /\ wk[2].pc = "return"
  /\ wk[2].kind = "initialized"
  /\ Len(wk[2].calls) = 1
  /\ wk[2].calls[1].threw
  /\ \A t \in Threads : ~wk[t].exc /\ ~wk[t].jmessage

\* C14: a worker thread is attached by its first callback and by no later
\* one, which uses the stored environment; the detach destructor runs only
\* when the thread exits, once when the thread was attached and not at all
\* when it never got an environment.
C14_LazyAttachOncePerThread ==
  /\ [](\A t \in Threads :
          /\ n_attach[t] <= 1
          /\ tls[t] # NULL => (tls[t] = Env(t) /\ n_attach[t] = 1)
          /\ wk[t].pc # "exited" => n_detach[t] = 0
          /\ wk[t].pc = "exited" => n_detach[t] = n_attach[t])
  /\ [][ \A t \in Threads :
           (tls[t] # NULL /\ wk[t].pc = "idle" /\ wk'[t].pc = "CallVoidMethod")
             => /\ n_attach'[t] = n_attach[t]
                /\ tls'[t] = tls[t]
                /\ wk'[t].env = tls[t] ]_vars
  /\ [][ \A t \in Threads :
           (tls[t] = NULL /\ wk[t].pc = "idle" /\ wk'[t].pc = "CallVoidMethod")
             => (n_attach'[t] = n_attach[t] + 1 /\ tls'[t] = Env(t)) ]_vars

\* Thread 1 has exited after callbacks and was detached once; thread 2 has
\* exited without ever running a callback and was not detached.
C14_Witness ==
  /\ wk[1].pc = "exited"
  /\ n_attach[1] = 1
  /\ n_detach[1] = 1
  /\ wk[2].pc = "exited"
  /\ n_attach[2] = 0
  /\ n_detach[2] = 0

\* The position of effect `tag` in the effects of the current native method,
\* 0 when it has not happened.
EffectAt(tag) == IF Effects(tag) = {} THEN 0 ELSE CHOOSE k \in Effects(tag) : TRUE

\* C15: finalize on a present instance frees the cached username, password
\* and URI, then destroys the pipeline, then releases the owner reference,
\* then frees the instance, then clears the owner's field: when the
\* pipeline is about to be destroyed none of the three strings is cached or
\* allocated any more, the later steps happen in that order, and after the
\* return no cached string of the instance is allocated and the field is
\* unset.
C15_FinalizeTeardownOrder ==
  /\ At("finalize", "gst_launch_remote_free")
       => \A f \in StringFields :
            launch[cmd.app][f] = NullStr /\ n_str[cmd.app][f] = 0
  /\ cmd.last = "finalize"
       => /\ \A k \in Effects("g_free") : \A j \in Effects("pipeline_destroy") : k < j
          /\ EffectAt("owner_ref_release") # 0
               => (0 < EffectAt("pipeline_destroy")
                   /\ EffectAt("pipeline_destroy") < EffectAt("owner_ref_release"))
          /\ EffectAt("instance_free") # 0
               => (0 < EffectAt("owner_ref_release")
                   /\ EffectAt("owner_ref_release") < EffectAt("instance_free"))
          /\ EffectAt("slot_clear") # 0
               => (0 < EffectAt("instance_free")
                   /\ EffectAt("instance_free") < EffectAt("slot_clear"))
  /\ (cmd.op = "idle" /\ cmd.last = "finalize" /\ cmd.trace # <<>>)
       => /\ slot = NULL
          /\ \A k \in Effects("slot_clear") : \A f \in StringFields :
               n_str[cmd.trace[k][2]][f] = 0

\* C16 as stated: at every moment, the steps inside surface-init included,
\* an instance has at most one native window reference that it acquired and
\* has not released.
C16_AtMostOneWindowRef ==
  \A i \in Instances : win_held[i] <= 1

\* C16 amended: an instance has at most one unreleased native window
\* reference, except inside a surface-init that replaces a window: from the
\* acquisition of the new window to the release of the old one the instance
\* has exactly these two, and never more.
C16_AtMostOneWindowRefBetweenCommands ==
  \A i \in Instances :
    win_held[i] > 1 =>
      /\ win_held[i] = 2
      /\ At("surface_init", "release_old_window")
      /\ cmd.app = i
      /\ heap[i].native_window # NULL
      /\ cmd.new_native_window # NULL

\* surface-init(S2) on an instance that holds the window of S1 has acquired
\* the window of S2 and is about to release the window of S1.
C16_Witness ==
  /\ At("surface_init", "release_old_window")
  /\ heap[cmd.app].native_window = 1
  /\ cmd.new_native_window = 2
  /\ win_held[cmd.app] = 2

\* C17: whenever no native method is running, every AndroidLaunch that is
\* allocated and every pipeline that exists belongs to the instance in the
\* owner's field: there is at most one, and none that the field no longer
\* reaches.
C17_OneInstancePerOwner ==
  cmd.op = "idle" =>
    \A i \in Instances :
      (heap[i].st = "live" \/ launch[i].st = "running") => slot = i

\* C18: the global reference of an instance is deleted at most once, no
\* callback runs on an instance whose reference is deleted, and whenever
\* the owner's field is unset between native methods no global reference
\* made for the owner is left undeleted.
C18_OwnerRefReleasedExactlyOnce ==
  /\ \A i \in Instances : n_delref[i] <= 1
  /\ \A i \in Instances : \A t \in Threads : gref[i] = "deleted" => ~InFlight(t, i)
  /\ (cmd.op = "idle" /\ slot = NULL) => \A i \in Instances : gref[i] # "valid"

\* C19: ANativeWindow_release is only ever called on a window that has an
\* unreleased reference: never on NULL, never on a released window.
C19_ReleaseOnlyLiveWindow ==
  /\ fault \notin {"release_null_window", "release_dead_window"}
  /\ \A k \in Effects("window_release") : cmd.trace[k][2] # NULL

\* C20: once finalize has freed an instance and returned, none of the
\* native window references the instance acquired is unreleased.
C20_NoWindowRefAfterFinalize ==
  cmd.op = "idle" =>
    \A i \in Instances : heap[i].st = "freed" => win_held[i] = 0

====
